---- MODULE Spec2Model ----
(***************************************************************************)
(* Attendance eligibility and ledger of the zugoweb application.           *)
(*                                                                         *)
(* The model covers the /attendance handler (geofence, eligibility rules,  *)
(* ledger insert, working-days update) and the read-only report handlers.  *)
(* Time is read at the resolution of the ledger's DATETIME column (whole   *)
(* seconds); an instant is the number of seconds since 00:00:00 of day 0.  *)
(* Coordinates are integers in units of 1e-7 degree, the resolution of the *)
(* DECIMAL(10,7) columns.                                                  *)
(***************************************************************************)
EXTENDS Integers, Sequences, FiniteSets, TLC

(***************************************************************************)
(* Bounds of the model.                                                    *)
(***************************************************************************)
\* The ledger holds at most MaxRows rows.
MaxRows == 2
\* Of these, at most MaxOther rows are of an action other than check-in and
\* check-out.
MaxOther == 1
\* The tables handed to the report builder hold at most MaxEvents rows.
MaxEvents == 4

(***************************************************************************)
(* datetime: instants, dates and times of day.                             *)
(***************************************************************************)
HMS(h, m, s) == (h * 60 + m) * 60 + s

SecondsPerDay == HMS(24, 0, 0)

\* now.date() and SQL DATE(event_time)
DateOf(t) == t \div SecondsPerDay

\* now.time()
TimeOf(t) == t % SecondsPerDay

(***************************************************************************)
(* config.py                                                               *)
(***************************************************************************)
\* Office coordinates in units of 1e-7 degree (11.1205615, 77.3396206).
OFFICE_LAT == 111205615
OFFICE_LON == 773396206
OFFICE_RADIUS_METERS == 100

CHECKIN_MORNING_START == HMS(9, 30, 0)
CHECKIN_MORNING_END == HMS(19, 45, 0)
CHECKIN_AFTERNOON_EXACT == HMS(13, 30, 0)
CHECKOUT_MIN_TIME == HMS(19, 15, 0)

\* _build_report_for_user(db, user_email, days=30)
REPORT_DAYS == 30

(***************************************************************************)
(* Input sets.                                                             *)
(***************************************************************************)
Employees == {"asha@zugo", "bala@zugo"}

\* request.session.get("user_email") of a session that holds no user
NoUser == ""

\* Values of the form field `action`; "break" stands for any other string.
FormActions == {"check-in", "check-out", "break"}

\* Times of day on day 0: the bounds of the check-in window and of the
\* check-out time, the second before or after each, and two times between.
TimesOfDay ==
    { HMS(9, 29, 59), HMS(9, 30, 0), HMS(13, 30, 0), HMS(19, 0, 0),
      HMS(19, 14, 59), HMS(19, 15, 0), HMS(19, 45, 0), HMS(19, 45, 1) }

\* The time of day on the later day, REPORT_DAYS days after day 0: a time
\* at which both a check-in and a check-out pass the time rules.
LaterTimesOfDay == { HMS(19, 15, 0) }

Instants ==
    { t : t \in TimesOfDay } \cup
    { REPORT_DAYS * SecondsPerDay + t : t \in LaterTimesOfDay }

\* A point about 70 m from the office and a point about 150 m from it.
Points ==
    { [lat |-> OFFICE_LAT + 4500, lon |-> OFFICE_LON + 4500],
      [lat |-> OFFICE_LAT + 13500, lon |-> OFFICE_LON] }

(***************************************************************************)
(* Geofence: is_at_office.                                                 *)
(***************************************************************************)
Abs(x) == IF x < 0 THEN -x ELSE x

\* floor of the square root of n by Newton's iteration, from an estimate x
\* that is not below it
RECURSIVE ISqrt(_, _)
ISqrt(n, x) ==
    IF x = 0 THEN 0
    ELSE LET y == (x + n \div x) \div 2
         IN  IF y >= x THEN x ELSE ISqrt(n, y)

\* Great-circle distance in whole centimetres, rounded up, R = 6371000 m.
\* For points within a few hundred metres of the office the haversine
\* expression is evaluated in its small-angle form
\*   d = R * sqrt(dlat^2 + cos(lat1) * cos(lat2) * dlon^2):
\* 1e-7 degree of latitude is 1.11195 cm, and 1e-7 degree of longitude at
\* the office latitude is 1.09107 cm (cos(11.1205615 deg) = 0.98122).  A
\* distance rounded up to whole centimetres is <= a whole number of
\* centimetres exactly when the distance is.
haversine(lat1, lon1, lat2, lon2) ==
    LET dlat == (Abs(lat2 - lat1) * 111195 + 99999) \div 100000
        dlon == (Abs(lon2 - lon1) * 109107 + 99999) \div 100000
        n == dlat * dlat + dlon * dlon
        r == ISqrt(n, dlat + dlon)
    IN  IF r * r = n THEN r ELSE r + 1

\* Mutant: a point at the radius is outside.
is_at_office_Exclusive(lat, lon) ==
    haversine(lat, lon, OFFICE_LAT, OFFICE_LON) < OFFICE_RADIUS_METERS * 100

is_at_office(lat, lon) ==
    haversine(lat, lon, OFFICE_LAT, OFFICE_LON) <= OFFICE_RADIUS_METERS * 100

(***************************************************************************)
(* String formatting.                                                      *)
(***************************************************************************)
Fmt2(n) == IF n < 10 THEN "0" \o ToString(n) ELSE ToString(n)

\* strftime("%I:%M %p") of an instant; `sep` is the separator before AM/PM.
StrfTime12(t, sep) ==
    LET h == TimeOf(t) \div 3600
        m == (TimeOf(t) % 3600) \div 60
        h12 == IF h % 12 = 0 THEN 12 ELSE h % 12
    IN  Fmt2(h12) \o ":" \o Fmt2(m) \o sep \o (IF h < 12 THEN "AM" ELSE "PM")

\* f"{x:.6f}" of a coordinate: rounded to 1e-6 degree, in units of 1e-6.
Fmt6(x) == IF x >= 0 THEN (x + 5) \div 10 ELSE -((-x + 5) \div 10)

LocationText(lat, lon) == <<Fmt6(lat), Fmt6(lon)>>

\* action.replace('-', '+')
ReplaceDash(action) ==
    CASE action = "check-in" -> "check+in"
      [] action = "check-out" -> "check+out"
      [] OTHER -> action

(***************************************************************************)
(* The attendance table.                                                   *)
(***************************************************************************)
\* The value an ENUM('check-in','check-out') column stores: a string that is
\* no member is stored as the empty error value when the server accepts it.
EnumAction(action) ==
    IF action \in {"check-in", "check-out"} THEN action ELSE ""

AttendanceRow(user_email, action, event_time, latitude, longitude) ==
    [ user_email |-> user_email,
      action |-> EnumAction(action),
      event_time |-> event_time,
      latitude |-> latitude,
      longitude |-> longitude,
      location_text |-> LocationText(latitude, longitude) ]

\* Mutant: the new row replaces the latest row of the table.
InsertAttendance_Overwrite(table, user_email, action, event_time, latitude, longitude) ==
    IF table = <<>>
    THEN <<AttendanceRow(user_email, action, event_time, latitude, longitude)>>
    ELSE [table EXCEPT ![Len(table)] =
            AttendanceRow(user_email, action, event_time, latitude, longitude)]

\* INSERT INTO attendance (...) VALUES (...); commit
InsertAttendance(table, user_email, action, event_time, latitude, longitude) ==
    Append(table, AttendanceRow(user_email, action, event_time, latitude, longitude))

\* Mutant: the SELECT returns the rows of the day of every employee.
TodaysRecords_AnyEmployee(table, user_email, today) ==
    { table[i] : i \in { j \in DOMAIN table :
                           DateOf(table[j].event_time) = today } }

\* Mutant: the SELECT returns the rows of the employee of every day.
TodaysRecords_AnyDay(table, user_email, today) ==
    { table[i] : i \in { j \in DOMAIN table : table[j].user_email = user_email } }

\* SELECT * FROM attendance WHERE user_email = %s AND DATE(event_time) = %s
TodaysRecords(table, user_email, today) ==
    { table[i] : i \in { j \in DOMAIN table :
                           /\ table[j].user_email = user_email
                           /\ DateOf(table[j].event_time) = today } }

\* any(r['action'] == a for r in todays_records)
HasAction(todays_records, a) == \E r \in todays_records : r.action = a

(***************************************************************************)
(* Eligibility rules of handle_attendance.                                 *)
(***************************************************************************)
NoError == ""
MsgOutsideOffice == "Location+outside+office+bounds"
MsgCheckinWindow == "Check-in+only+allowed+between"
MsgAlreadyIn == "Already+checked+in+today"
MsgTooEarly == "Check-out+only+allowed+after"
MsgNoCheckin == "Must+check-in+before+checking+out"
MsgAlreadyOut == "Already+checked+out+today"
MsgDatabase == "Database+error"

\* Mutant: the start of the morning window is excluded.
is_morning_StrictStart(current_time) ==
    CHECKIN_MORNING_START < current_time /\ current_time <= CHECKIN_MORNING_END

is_morning(current_time) ==
    CHECKIN_MORNING_START <= current_time /\ current_time <= CHECKIN_MORNING_END

is_afternoon(current_time) == current_time = CHECKIN_AFTERNOON_EXACT

\* Mutant: the check-in of the day is looked for before the time of day.
CheckInRules_DuplicateFirst(current_time, todays_records) ==
    IF HasAction(todays_records, "check-in")
    THEN MsgAlreadyIn
    ELSE IF ~(is_morning(current_time) \/ is_afternoon(current_time))
    THEN MsgCheckinWindow
    ELSE NoError

\* Mutant: the rule that rejects a second check-in of the day is missing.
CheckInRules_NoDuplicateRule(current_time, todays_records) ==
    IF ~(is_morning(current_time) \/ is_afternoon(current_time))
    THEN MsgCheckinWindow
    ELSE NoError

CheckInRules(current_time, todays_records) ==
    IF ~(is_morning(current_time) \/ is_afternoon(current_time))
    THEN MsgCheckinWindow
    ELSE IF HasAction(todays_records, "check-in")
    THEN MsgAlreadyIn
    ELSE NoError

\* Mutant: the check-out time itself counts as too early.
CheckOutRules_StrictMinTime(current_time, todays_records) ==
    IF current_time <= CHECKOUT_MIN_TIME
    THEN MsgTooEarly
    ELSE IF ~HasAction(todays_records, "check-in")
    THEN MsgNoCheckin
    ELSE IF HasAction(todays_records, "check-out")
    THEN MsgAlreadyOut
    ELSE NoError

\* Mutant: the check-in is looked for before the time of day.
CheckOutRules_CheckInFirst(current_time, todays_records) ==
    IF ~HasAction(todays_records, "check-in")
    THEN MsgNoCheckin
    ELSE IF current_time < CHECKOUT_MIN_TIME
    THEN MsgTooEarly
    ELSE IF HasAction(todays_records, "check-out")
    THEN MsgAlreadyOut
    ELSE NoError

\* Mutant: the check-out of the day is looked for before its check-in.
CheckOutRules_CheckOutFirst(current_time, todays_records) ==
    IF current_time < CHECKOUT_MIN_TIME
    THEN MsgTooEarly
    ELSE IF HasAction(todays_records, "check-out")
    THEN MsgAlreadyOut
    ELSE IF ~HasAction(todays_records, "check-in")
    THEN MsgNoCheckin
    ELSE NoError

\* Mutant: the rule that requires a check-in before a check-out is missing.
CheckOutRules_NoCheckInRule(current_time, todays_records) ==
    IF current_time < CHECKOUT_MIN_TIME
    THEN MsgTooEarly
    ELSE IF HasAction(todays_records, "check-out")
    THEN MsgAlreadyOut
    ELSE NoError

\* Mutant: every rejected check-out is answered with the same message.
CheckOutRules_OneMessage(current_time, todays_records) ==
    IF current_time < CHECKOUT_MIN_TIME THEN MsgTooEarly
    ELSE IF ~HasAction(todays_records, "check-in") THEN MsgTooEarly
    ELSE IF HasAction(todays_records, "check-out") THEN MsgTooEarly
    ELSE NoError

\* The check-out rules, in the order of the code.
CheckOutRules(current_time, todays_records) ==
    IF current_time < CHECKOUT_MIN_TIME
    THEN MsgTooEarly
    ELSE IF ~HasAction(todays_records, "check-in")
    THEN MsgNoCheckin
    ELSE IF HasAction(todays_records, "check-out")
    THEN MsgAlreadyOut
    ELSE NoError

\* The error of the rejecting rule, or NoError when the request goes on to
\* the insert.
Evaluate(action, current_time, todays_records) ==
    IF action = "check-in" THEN CheckInRules(current_time, todays_records)
    ELSE IF action = "check-out" THEN CheckOutRules(current_time, todays_records)
    ELSE NoError

(***************************************************************************)
(* services.calculate_working_days_and_leaves_for_employee                 *)
(***************************************************************************)
\* The employee's running total of working days: the days up to `today` on
\* which the ledger holds a check-in of the employee.
CalculateWorkingDays(table, user_email, today) ==
    Cardinality({ DateOf(table[i].event_time) :
                    i \in { j \in DOMAIN table :
                              /\ table[j].user_email = user_email
                              /\ table[j].action = "check-in"
                              /\ DateOf(table[j].event_time) <= today } })

(***************************************************************************)
(* _build_report_for_user                                                  *)
(***************************************************************************)
Min(S) == CHOOSE x \in S : \A y \in S : x <= y
Max(S) == CHOOSE x \in S : \A y \in S : x >= y

\* Mutant: the days are emitted latest first.
RECURSIVE SortAsc_Descending(_)
SortAsc_Descending(S) ==
    IF S = {} THEN <<>>
    ELSE <<Max(S)>> \o SortAsc_Descending(S \ {Max(S)})

\* sorted(...) of a set of integers
RECURSIVE SortAsc(_)
SortAsc(S) ==
    IF S = {} THEN <<>>
    ELSE <<Min(S)>> \o SortAsc(S \ {Min(S)})

\* Mutant: the query has no lower bound on event_time.
ReportEvents_NoStart(table, user_email, start_date, end_date) ==
    { [event_time |-> table[i].event_time, action |-> table[i].action] :
        i \in { j \in DOMAIN table :
                  /\ table[j].user_email = user_email
                  /\ table[j].event_time <= end_date } }

\* SELECT event_time, action FROM attendance
\* WHERE user_email = %s AND event_time BETWEEN %s AND %s
ReportEvents(table, user_email, start_date, end_date) ==
    { [event_time |-> table[i].event_time, action |-> table[i].action] :
        i \in { j \in DOMAIN table :
                  /\ table[j].user_email = user_email
                  /\ start_date <= table[j].event_time
                  /\ table[j].event_time <= end_date } }

\* The times of the events of one day with the given action.
EventTimes(rows, day, action) ==
    { r.event_time : r \in { e \in rows : DateOf(e.event_time) = day
                                          /\ e.action = action } }

\* Mutant: the day is counted from its latest check-in.
DaySeconds_LatestCheckIn(rows, day) ==
    IF EventTimes(rows, day, "check-in") # {} /\ EventTimes(rows, day, "check-out") # {}
    THEN Max(EventTimes(rows, day, "check-out")) - Max(EventTimes(rows, day, "check-in"))
    ELSE 0

\* seconds of one day: max(check_outs) - min(check_ins) when both exist.
DaySeconds(rows, day) ==
    LET check_ins == EventTimes(rows, day, "check-in")
        check_outs == EventTimes(rows, day, "check-out")
    IN  IF check_ins # {} /\ check_outs # {}
        THEN Max(check_outs) - Min(check_ins)
        ELSE 0

\* One row of the report.  The day stands for its ISO string, whose order
\* is the order of the dates.
ReportRow(rows, day) ==
    LET check_ins == EventTimes(rows, day, "check-in")
        check_outs == EventTimes(rows, day, "check-out")
        seconds == DaySeconds(rows, day)
        hours == seconds \div 3600
        minutes == (seconds % 3600) \div 60
    IN  [ day |-> day,
          check_in |-> IF check_ins # {} THEN StrfTime12(Min(check_ins), " ") ELSE "-",
          check_out |-> IF check_outs # {} THEN StrfTime12(Max(check_outs), " ") ELSE "-",
          total_hours |-> IF seconds # 0
                          THEN ToString(hours) \o "h " \o ToString(minutes) \o "m"
                          ELSE "-" ]

\* Mutant: the seconds of a day replace the total instead of adding to it.
SumSeconds_LastDay(rows, days) ==
    IF days = {} THEN 0 ELSE DaySeconds(rows, Max(days))

RECURSIVE SumSeconds(_, _)
SumSeconds(rows, days) ==
    IF days = {} THEN 0
    ELSE LET d == Min(days)
         IN  DaySeconds(rows, d) + SumSeconds(rows, days \ {d})

\* (report, total_working_seconds) for the window of REPORT_DAYS days that
\* ends at `now`.
BuildReportForUser(table, user_email, now) ==
    LET end_date == now
        start_date == end_date - REPORT_DAYS * SecondsPerDay
        rows == ReportEvents(table, user_email, start_date, end_date)
        by_date == { DateOf(r.event_time) : r \in rows }
        sorted == SortAsc(by_date)
    IN  [ report |-> [k \in DOMAIN sorted |-> ReportRow(rows, sorted[k])],
          total_working_seconds |-> SumSeconds(rows, by_date) ]

(***************************************************************************)
(* Responses.                                                              *)
(***************************************************************************)
LoginRedirect == [status |-> "login", msg |-> ""]
ErrorRedirect(msg) == [status |-> "error", msg |-> msg]
SuccessRedirect(action, now) ==
    [ status |-> "success",
      msg |-> "Successfully+" \o ReplaceDash(action) \o "+at+" \o StrfTime12(now, "+") ]

\* Outcomes of the statements a request sends to the database.
DbOutcomes == {"ok", "insert fails", "update fails"}

(***************************************************************************)
(* State.                                                                  *)
(***************************************************************************)
VARIABLES
    attendance,     \* the attendance table, in insertion order
    total_working,  \* employee_details.total_working of each employee
    clock,          \* the current reading of datetime.now()
    last,           \* the request being answered: its inputs, the outcome of
                    \* its database statements and its response
    reqs,           \* interleaved service: the requests in flight
    read_len        \* history: for each row of the table, the number of rows
                    \* the table held when the inserting request ran its SELECT

vars == <<attendance, total_working, clock, last, reqs, read_len>>

NoRequest ==
    [ op |-> "none", user |-> NoUser, action |-> "", lat |-> 0, lon |-> 0,
      now |-> 0, todays |-> {}, db |-> "ok", resp |-> LoginRedirect ]

\* The server processes that serve requests side by side.
Requests == {"p", "q"}

Idle ==
    [ pc |-> "idle", user |-> NoUser, action |-> "", lat |-> 0, lon |-> 0,
      now |-> 0, todays |-> {}, seen |-> 0, resp |-> LoginRedirect ]

Init ==
    /\ attendance = <<>>
    /\ total_working = [e \in Employees |-> 0]
    /\ clock \in Instants
    /\ last = NoRequest
    /\ reqs = [r \in Requests |-> Idle]
    /\ read_len = <<>>

(***************************************************************************)
(* POST /attendance, served from the first line to the response.           *)
(***************************************************************************)
\* What one request leaves behind: the attendance table, the total_working
\* values, today's records as the request read them (none before the
\* SELECT), whether it went on to the INSERT, and its RedirectResponse.
Outcome(table, totals, todays_records, inserting, resp) ==
    [ attendance |-> table, total_working |-> totals, todays |-> todays_records,
      inserting |-> inserting, resp |-> resp ]

\* Mutant: the working days are recomputed after every INSERT.
UpdatesWorkingDays_Always(action) == TRUE

\* Whether the working days are recomputed after the INSERT of the action.
UpdatesWorkingDays(action) == action = "check-in"

\* Mutant: an INSERT that raises is attempted a second time, which succeeds.
InsertAndUpdate_Retry(table, totals, todays_records, user, action, lat, lon, now, db) ==
    IF ~UpdatesWorkingDays(action)
    THEN Outcome(InsertAttendance(table, user, action, now, lat, lon), totals,
                 todays_records, TRUE, SuccessRedirect(action, now))
    ELSE IF db = "update fails"
    THEN Outcome(InsertAttendance(table, user, action, now, lat, lon), totals,
                 todays_records, TRUE, ErrorRedirect(MsgDatabase))
    ELSE Outcome(InsertAttendance(table, user, action, now, lat, lon),
                 [totals EXCEPT ![user] =
                     CalculateWorkingDays(
                         InsertAttendance(table, user, action, now, lat, lon),
                         user, DateOf(now))],
                 todays_records, TRUE, SuccessRedirect(action, now))

\* The INSERT and what follows it.
\* db: whether the INSERT raises, the working-days recomputation or UPDATE
\* raises, or both succeed.
InsertAndUpdate(table, totals, todays_records, user, action, lat, lon, now, db) ==
    IF db = "insert fails"
    THEN Outcome(table, totals, todays_records, TRUE, ErrorRedirect(MsgDatabase))
    ELSE IF ~UpdatesWorkingDays(action)
    THEN Outcome(InsertAttendance(table, user, action, now, lat, lon), totals,
                 todays_records, TRUE, SuccessRedirect(action, now))
    ELSE IF db = "update fails"
    THEN Outcome(InsertAttendance(table, user, action, now, lat, lon), totals,
                 todays_records, TRUE, ErrorRedirect(MsgDatabase))
    ELSE Outcome(InsertAttendance(table, user, action, now, lat, lon),
                 [totals EXCEPT ![user] =
                     CalculateWorkingDays(
                         InsertAttendance(table, user, action, now, lat, lon),
                         user, DateOf(now))],
                 todays_records, TRUE, SuccessRedirect(action, now))

\* Mutant: the row is inserted before the eligibility rules are evaluated.
AttendanceOutcome_InsertFirst(table, totals, user, action, lat, lon, now, db) ==
    IF user = NoUser
    THEN Outcome(table, totals, {}, FALSE, LoginRedirect)
    ELSE IF ~is_at_office(lat, lon)
    THEN Outcome(table, totals, {}, FALSE, ErrorRedirect(MsgOutsideOffice))
    ELSE IF Evaluate(action, TimeOf(now),
                     TodaysRecords(table, user, DateOf(now))) # NoError
    THEN Outcome(InsertAttendance(table, user, action, now, lat, lon), totals,
                 TodaysRecords(table, user, DateOf(now)), TRUE,
                 ErrorRedirect(Evaluate(action, TimeOf(now),
                                        TodaysRecords(table, user, DateOf(now)))))
    ELSE InsertAndUpdate(table, totals, TodaysRecords(table, user, DateOf(now)),
                         user, action, lat, lon, now, db)

\* Mutant: the eligibility rules are evaluated before the geofence.
AttendanceOutcome_RulesFirst(table, totals, user, action, lat, lon, now, db) ==
    IF user = NoUser
    THEN Outcome(table, totals, {}, FALSE, LoginRedirect)
    ELSE IF Evaluate(action, TimeOf(now),
                     TodaysRecords(table, user, DateOf(now))) # NoError
    THEN Outcome(table, totals, TodaysRecords(table, user, DateOf(now)), FALSE,
                 ErrorRedirect(Evaluate(action, TimeOf(now),
                                        TodaysRecords(table, user, DateOf(now)))))
    ELSE IF ~is_at_office(lat, lon)
    THEN Outcome(table, totals, TodaysRecords(table, user, DateOf(now)), FALSE,
                 ErrorRedirect(MsgOutsideOffice))
    ELSE InsertAndUpdate(table, totals, TodaysRecords(table, user, DateOf(now)),
                         user, action, lat, lon, now, db)

\* handle_attendance from the session check to the response.
AttendanceOutcome(table, totals, user, action, lat, lon, now, db) ==
    IF user = NoUser
    THEN Outcome(table, totals, {}, FALSE, LoginRedirect)
    ELSE IF ~is_at_office(lat, lon)
    THEN Outcome(table, totals, {}, FALSE, ErrorRedirect(MsgOutsideOffice))
    ELSE IF Evaluate(action, TimeOf(now),
                     TodaysRecords(table, user, DateOf(now))) # NoError
    THEN Outcome(table, totals, TodaysRecords(table, user, DateOf(now)), FALSE,
                 ErrorRedirect(Evaluate(action, TimeOf(now),
                                        TodaysRecords(table, user, DateOf(now)))))
    ELSE InsertAndUpdate(table, totals, TodaysRecords(table, user, DateOf(now)),
                         user, action, lat, lon, now, db)

\* A failing statement is chosen only for a request that executes it.
DbChoice(inserting, action, db) ==
    \/ db = "ok"
    \/ inserting /\ db = "insert fails"
    \/ inserting /\ db = "update fails" /\ action = "check-in"

\* Rows of the table whose action is neither check-in nor check-out.
OtherRows(table) ==
    { i \in DOMAIN table : table[i].action \notin {"check-in", "check-out"} }

HandleAttendance(user, action, loc, db) ==
    /\ last = NoRequest
    /\ \E out \in { AttendanceOutcome(attendance, total_working, user, action,
                                      loc.lat, loc.lon, clock, db) } :
           /\ DbChoice(out.inserting, action, db)
           /\ Len(out.attendance) <= MaxRows
           /\ Cardinality(OtherRows(out.attendance)) <= MaxOther
           /\ attendance' = out.attendance
           /\ read_len' = IF out.attendance = attendance THEN read_len
                          ELSE Append(read_len, Len(attendance))
           /\ total_working' = out.total_working
           /\ last' = [ op |-> "attendance", user |-> user, action |-> action,
                        lat |-> loc.lat, lon |-> loc.lon, now |-> clock,
                        todays |-> out.todays, db |-> db, resp |-> out.resp ]
    /\ UNCHANGED <<clock, reqs>>

(***************************************************************************)
(* GET /report and GET /download_report                                    *)
(***************************************************************************)
\* The page of /report: today's records and the report of the last
\* REPORT_DAYS days.  The tables are only read.
Report(user) ==
    /\ last = NoRequest
    /\ last' = [ op |-> "report", user |-> user, action |-> "", lat |-> 0, lon |-> 0,
                 now |-> clock,
                 todays |-> IF user = NoUser THEN {}
                            ELSE TodaysRecords(attendance, user, DateOf(clock)),
                 db |-> "ok",
                 resp |-> IF user = NoUser THEN LoginRedirect
                          ELSE [status |-> "page", msg |-> ""]
                               @@ BuildReportForUser(attendance, user, clock) ]
    /\ UNCHANGED <<attendance, total_working, clock, reqs, read_len>>

\* The CSV of /download_report: the rows of the same report.
DownloadReport(user) ==
    /\ last = NoRequest
    /\ last' = [ op |-> "download", user |-> user, action |-> "", lat |-> 0, lon |-> 0,
                 now |-> clock, todays |-> {}, db |-> "ok",
                 resp |-> IF user = NoUser THEN LoginRedirect
                          ELSE [ status |-> "csv", msg |-> "",
                                 report |-> BuildReportForUser(attendance, user, clock).report ] ]
    /\ UNCHANGED <<attendance, total_working, clock, reqs, read_len>>

\* The response has been sent; the next request can be served.
Respond ==
    /\ last # NoRequest
    /\ last' = NoRequest
    /\ UNCHANGED <<attendance, total_working, clock, reqs, read_len>>

\* Time passes: the clock moves on to a later instant.
Tick ==
    /\ last = NoRequest
    /\ \E t \in Instants : t > clock /\ clock' = t
    /\ UNCHANGED <<attendance, total_working, last, reqs, read_len>>

\* A request without a session is turned away before any of its fields is
\* used: one such request is enough.
Next ==
    \/ \E user \in Employees, action \in FormActions, loc \in Points,
          db \in DbOutcomes :
           HandleAttendance(user, action, loc, db)
    \/ \E loc \in Points : HandleAttendance(NoUser, "check-in", loc, "ok")
    \/ \E user \in Employees \cup {NoUser} : Report(user)
    \/ \E user \in Employees : DownloadReport(user)
    \/ Respond
    \/ Tick

\* Requests served one at a time.
Spec == Init /\ [][Next]_vars

(***************************************************************************)
(* The eligibility rules alone, on any records of the day.                 *)
(***************************************************************************)
\* Records a SELECT of today's rows can return: any rows of the table,
\* whichever way they were inserted.
RecordPool ==
    { AttendanceRow("asha@zugo", a, t, OFFICE_LAT, OFFICE_LON) :
        a \in {"check-in", "check-out"}, t \in {HMS(9, 30, 0), HMS(19, 15, 0)} }

InitEval ==
    /\ attendance = <<>>
    /\ total_working = [e \in Employees |-> 0]
    /\ clock \in TimesOfDay
    /\ reqs = [r \in Requests |-> Idle]
    /\ read_len = <<>>
    /\ \E action \in FormActions, todays_records \in SUBSET RecordPool :
          last = [ op |-> "evaluate", user |-> "asha@zugo", action |-> action,
                   lat |-> OFFICE_LAT, lon |-> OFFICE_LON, now |-> clock,
                   todays |-> todays_records, resp |-> LoginRedirect ]

\* The rules are applied to the inputs.
EvaluateStep ==
    /\ last.op = "evaluate"
    /\ \E error \in { Evaluate(last.action, TimeOf(last.now), last.todays) } :
          last' = [last EXCEPT !.op = "evaluated",
                               !.resp = IF error = NoError
                                        THEN [status |-> "accept", msg |-> NoError]
                                        ELSE ErrorRedirect(error)]
    /\ UNCHANGED <<attendance, total_working, clock, reqs, read_len>>

SpecEval == InitEval /\ [][EvaluateStep]_vars

(***************************************************************************)
(* POST /attendance served by several processes side by side.  A request   *)
(* runs alone between two of its database statements: up to its SELECT,    *)
(* from there to its INSERT, and from there to its UPDATE.                 *)
(***************************************************************************)
NoPoint == [lat |-> 0, lon |-> 0]

Request(pc, user, action, loc, now, todays, seen, resp) ==
    [ pc |-> pc, user |-> user, action |-> action, lat |-> loc.lat, lon |-> loc.lon,
      now |-> now, todays |-> todays, seen |-> seen, resp |-> resp ]

\* The request has returned: its local variables are gone, its response
\* is on the way to the client.
Done(q, resp) ==
    [ pc |-> "done", user |-> q.user, action |-> q.action, lat |-> 0,
      lon |-> 0, now |-> 0, todays |-> {}, seen |-> 0, resp |-> resp ]

\* Session check, geofence, now = datetime.now(), SELECT of today's records.
Receive(r, user, action, loc) ==
    /\ reqs[r].pc = "idle"
    /\ reqs' = [reqs EXCEPT ![r] =
          IF user = NoUser
          THEN Request("done", user, action, NoPoint, 0, {}, 0, LoginRedirect)
          ELSE IF ~is_at_office(loc.lat, loc.lon)
          THEN Request("done", user, action, NoPoint, 0, {}, 0,
                       ErrorRedirect(MsgOutsideOffice))
          ELSE Request("selected", user, action, loc, clock,
                       TodaysRecords(attendance, user, DateOf(clock)),
                       Len(attendance), LoginRedirect)]
    /\ UNCHANGED <<attendance, total_working, clock, last, read_len>>

\* The eligibility rules on the records read, then INSERT and commit.
InsertStep(r, db) ==
    /\ reqs[r].pc = "selected"
    /\ LET q == reqs[r]
           error == Evaluate(q.action, TimeOf(q.now), q.todays)
       IN  IF error # NoError
           THEN /\ db = "ok"
                /\ reqs' = [reqs EXCEPT ![r] = Done(q, ErrorRedirect(error))]
                /\ UNCHANGED <<attendance, read_len>>
           ELSE IF db = "insert fails"
           THEN /\ reqs' = [reqs EXCEPT ![r] = Done(q, ErrorRedirect(MsgDatabase))]
                /\ UNCHANGED <<attendance, read_len>>
           ELSE /\ Len(attendance) < MaxRows
                /\ attendance' = InsertAttendance(attendance, q.user, q.action,
                                                  q.now, q.lat, q.lon)
                /\ read_len' = Append(read_len, q.seen)
                /\ reqs' = [reqs EXCEPT ![r] =
                      IF UpdatesWorkingDays(q.action)
                      THEN [q EXCEPT !.pc = "inserted"]
                      ELSE Done(q, SuccessRedirect(q.action, q.now))]
    /\ UNCHANGED <<total_working, clock, last>>

\* Recomputation of the working days, UPDATE of total_working and commit.
UpdateStep(r, db) ==
    /\ reqs[r].pc = "inserted"
    /\ LET q == reqs[r]
       IN  IF db = "update fails"
           THEN /\ reqs' = [reqs EXCEPT ![r] = Done(q, ErrorRedirect(MsgDatabase))]
                /\ UNCHANGED total_working
           ELSE /\ total_working' =
                      [total_working EXCEPT ![q.user] =
                          CalculateWorkingDays(attendance, q.user, DateOf(q.now))]
                /\ reqs' = [reqs EXCEPT ![r] =
                                Done(q, SuccessRedirect(q.action, q.now))]
    /\ UNCHANGED <<attendance, clock, last, read_len>>

\* The response has been sent; the process takes the next request.
Finish(r) ==
    /\ reqs[r].pc = "done"
    /\ reqs' = [reqs EXCEPT ![r] = Idle]
    /\ UNCHANGED <<attendance, total_working, clock, last, read_len>>

\* The instants of the interleaved service: a time of day at which only a
\* check-in passes its time rule, and one at which a check-out passes too.
ConcInstants == { HMS(9, 30, 0), HMS(19, 15, 0) }

InitConc ==
    /\ attendance = <<>>
    /\ total_working = [e \in Employees |-> 0]
    /\ clock \in ConcInstants
    /\ last = NoRequest
    /\ reqs = [r \in Requests |-> Idle]
    /\ read_len = <<>>

TickConc ==
    /\ \E t \in ConcInstants : t > clock /\ clock' = t
    /\ UNCHANGED <<attendance, total_working, last, reqs, read_len>>

NextConc ==
    \/ \E r \in Requests, user \in Employees, action \in {"check-in", "check-out"},
          loc \in Points :
           Receive(r, user, action, loc)
    \/ \E r \in Requests, db \in {"ok", "insert fails"} : InsertStep(r, db)
    \/ \E r \in Requests, db \in {"ok", "update fails"} : UpdateStep(r, db)
    \/ \E r \in Requests : Finish(r)
    \/ TickConc

\* Requests served side by side.
SpecConc == InitConc /\ [][NextConc]_vars

(***************************************************************************)
(* The location check of handle_attendance on any value of the form        *)
(* fields latitude and longitude (Python floats).  A finite value is       *)
(* turns * 360 degrees + v * 1e-7 degree, with v between -180 and 180      *)
(* degrees; the other values are nan and +-inf.                            *)
(***************************************************************************)
Finite(turns, v) == [kind |-> "finite", turns |-> turns, v |-> v]
NaN == [kind |-> "nan", turns |-> 0, v |-> 0]
Inf == [kind |-> "inf", turns |-> 0, v |-> 0]

\* Latitudes: the office latitude, the last 1e-7 degree within the radius
\* north of it and the first beyond, each also a full turn off; nan; inf.
GeoLatitudes ==
    { Finite(k, OFFICE_LAT + u) : k \in {-1, 0, 1}, u \in {0, 8993, 8994} }
        \cup {NaN, Inf}

\* Longitudes: the same east of the office.
GeoLongitudes ==
    { Finite(k, OFFICE_LON + u) : k \in {-1, 0, 1}, u \in {0, 9165, 9166} }
        \cup {NaN, Inf}

MsgInvalidLocation == "Invalid+location+data.+Please+enable+location+services"

\* The request goes on to now = datetime.now() and the SELECT.
Proceed == [status |-> "proceed", msg |-> ""]

\* try: if not is_at_office(float(latitude), float(longitude)): ...
\* except ValueError: ...
\* sin of an infinite angle raises ValueError; with a nan the distance is
\* nan and nan <= radius is False; sin and cos have the period of a full
\* turn, so that a finite value is judged as its remainder v is.
GeofenceCheck(latitude, longitude) ==
    IF latitude.kind = "inf" \/ longitude.kind = "inf"
    THEN ErrorRedirect(MsgInvalidLocation)
    ELSE IF latitude.kind = "nan" \/ longitude.kind = "nan"
    THEN ErrorRedirect(MsgOutsideOffice)
    ELSE IF ~is_at_office(latitude.v, longitude.v)
    THEN ErrorRedirect(MsgOutsideOffice)
    ELSE Proceed

InitGeo ==
    /\ attendance = <<>>
    /\ total_working = [e \in Employees |-> 0]
    /\ clock = HMS(9, 30, 0)
    /\ reqs = [r \in Requests |-> Idle]
    /\ read_len = <<>>
    /\ \E latitude \in GeoLatitudes, longitude \in GeoLongitudes :
          last = [ op |-> "locate", user |-> "asha@zugo", action |-> "check-in",
                   lat |-> latitude, lon |-> longitude, now |-> clock,
                   todays |-> {}, resp |-> LoginRedirect ]

\* The location check is applied to the coordinates.
GeofenceStep ==
    /\ last.op = "locate"
    /\ last' = [last EXCEPT !.op = "located",
                            !.resp = GeofenceCheck(last.lat, last.lon)]
    /\ UNCHANGED <<attendance, total_working, clock, reqs, read_len>>

SpecGeo == InitGeo /\ [][GeofenceStep]_vars

(***************************************************************************)
(* _build_report_for_user on any attendance table: rows of two employees,  *)
(* several check-ins or check-outs on a day, days with one of the two,     *)
(* rows before the window, at its first second and after its end.          *)
(***************************************************************************)
\* The rows a table is drawn from, in the order of their event_time.
EventPool ==
    << AttendanceRow("asha@zugo", "check-in", HMS(9, 30, 0), OFFICE_LAT, OFFICE_LON),
       AttendanceRow("asha@zugo", "check-out", HMS(9, 30, 0), OFFICE_LAT, OFFICE_LON),
       AttendanceRow("bala@zugo", "check-in", HMS(9, 30, 0), OFFICE_LAT, OFFICE_LON),
       AttendanceRow("asha@zugo", "check-in", HMS(13, 30, 0), OFFICE_LAT, OFFICE_LON),
       AttendanceRow("asha@zugo", "check-in", HMS(19, 15, 0), OFFICE_LAT, OFFICE_LON),
       AttendanceRow("asha@zugo", "check-out", HMS(19, 15, 0), OFFICE_LAT, OFFICE_LON),
       AttendanceRow("asha@zugo", "check-out", HMS(19, 45, 0), OFFICE_LAT, OFFICE_LON),
       AttendanceRow("asha@zugo", "check-in",
                     REPORT_DAYS * SecondsPerDay + HMS(9, 30, 0), OFFICE_LAT, OFFICE_LON),
       AttendanceRow("asha@zugo", "break",
                     REPORT_DAYS * SecondsPerDay + HMS(13, 30, 0), OFFICE_LAT, OFFICE_LON),
       AttendanceRow("asha@zugo", "check-out",
                     REPORT_DAYS * SecondsPerDay + HMS(19, 15, 0), OFFICE_LAT, OFFICE_LON),
       AttendanceRow("bala@zugo", "check-out",
                     REPORT_DAYS * SecondsPerDay + HMS(19, 15, 0), OFFICE_LAT, OFFICE_LON),
       AttendanceRow("asha@zugo", "check-out",
                     REPORT_DAYS * SecondsPerDay + HMS(19, 45, 0), OFFICE_LAT, OFFICE_LON) >>

\* The readings of datetime.now() in the report builder: day 0 in the
\* evening, the second REPORT_DAYS days after the 19:15:00 of day 0, and
\* the second after it.
ReportNows ==
    { HMS(19, 45, 1),
      REPORT_DAYS * SecondsPerDay + HMS(19, 15, 0),
      REPORT_DAYS * SecondsPerDay + HMS(19, 15, 1) }

\* The rows of the pool at the positions in S, in the order of the pool.
RECURSIVE PoolRows(_, _)
PoolRows(pool, S) ==
    IF pool = <<>> THEN <<>>
    ELSE IF Len(pool) \in S
    THEN Append(PoolRows(SubSeq(pool, 1, Len(pool) - 1), S), pool[Len(pool)])
    ELSE PoolRows(SubSeq(pool, 1, Len(pool) - 1), S)

InitReport ==
    /\ \E S \in SUBSET DOMAIN EventPool :
          /\ Cardinality(S) <= MaxEvents
          /\ attendance = PoolRows(EventPool, S)
    /\ total_working = [e \in Employees |-> 0]
    /\ clock \in ReportNows
    /\ last = [ op |-> "build", user |-> "asha@zugo", action |-> "", lat |-> 0,
                lon |-> 0, now |-> clock, todays |-> {}, resp |-> LoginRedirect ]
    /\ reqs = [r \in Requests |-> Idle]
    /\ read_len = <<>>

\* report, total_working_seconds = _build_report_for_user(db, user_email)
BuildStep ==
    /\ last.op = "build"
    /\ last' = [last EXCEPT !.op = "built",
                            !.resp = [status |-> "page", msg |-> ""]
                                     @@ BuildReportForUser(attendance, last.user, last.now)]
    /\ UNCHANGED <<attendance, total_working, clock, reqs, read_len>>

SpecReport == InitReport /\ [][BuildStep]_vars

(***************************************************************************)
(* Properties of the ledger under requests served one at a time.           *)
(***************************************************************************)
\* The rows of an employee on a calendar day with the given action.
RowsOf(e, day, a) ==
    { i \in DOMAIN attendance :
        /\ attendance[i].user_email = e
        /\ DateOf(attendance[i].event_time) = day
        /\ attendance[i].action = a }

LedgerDays == { DateOf(attendance[i].event_time) : i \in DOMAIN attendance }

\* The response of a request that a rule, the geofence or the session check
\* turned away before the INSERT.
PolicyErrors ==
    {MsgCheckinWindow, MsgAlreadyIn, MsgTooEarly, MsgNoCheckin, MsgAlreadyOut}

Rejected(l) ==
    /\ l.op = "attendance"
    /\ l.resp.status = "error"
    /\ l.resp.msg \in PolicyErrors \cup {MsgOutsideOffice}

\* The request passed every rule and went on to the INSERT.
Accepted(l) ==
    /\ l.op = "attendance"
    /\ \/ l.resp.status = "success"
       \/ l.resp.status = "error" /\ l.resp.msg = MsgDatabase

\* A request of an employee from inside the geofence with the given action.
Asked(l, a) ==
    /\ l.op = "attendance"
    /\ l.user \in Employees
    /\ l.action = a
    /\ is_at_office(l.lat, l.lon)

C4_AppendOnly ==
    [][ /\ Len(attendance') >= Len(attendance)
        /\ \A i \in DOMAIN attendance : attendance'[i] = attendance[i] ]_vars

\* A report has been built over a ledger that holds a check-in and a
\* check-out, both still in place.
C4_Witness ==
    /\ last.op \in {"report", "download"}
    /\ last.user \in Employees
    /\ Len(last.resp.report) > 0
    /\ Len(attendance) >= 2
    /\ attendance[1].action = "check-in"
    /\ attendance[2].action = "check-out"

(***************************************************************************)
(* Outcomes of single requests.                                            *)
(***************************************************************************)
\* C5: a check-in of an employee with no events today, from inside the
\* geofence, is accepted exactly when its time of day t satisfies
\* morning_start <= t <= morning_end or t = the afternoon instant; at
\* 09:30:00 it is accepted, at 09:29:59 it is rejected as outside the window.
C5_CheckInWindow ==
    (Asked(last, "check-in") /\ last.todays = {}) =>
        LET t == TimeOf(last.now)
        IN  /\ Accepted(last) <=>
                  \/ CHECKIN_MORNING_START <= t /\ t <= CHECKIN_MORNING_END
                  \/ t = CHECKIN_AFTERNOON_EXACT
            /\ ~Accepted(last) => last.resp = ErrorRedirect(MsgCheckinWindow)
            /\ t = HMS(9, 30, 0) => Accepted(last)
            /\ t = HMS(9, 29, 59) => last.resp = ErrorRedirect(MsgCheckinWindow)

\* A first check-in of the day at 09:30:00 has succeeded.
C5_Witness ==
    /\ Asked(last, "check-in")
    /\ last.todays = {}
    /\ TimeOf(last.now) = HMS(9, 30, 0)
    /\ last.resp.status = "success"

\* C6 as stated: with a check-in among today's records, a check-in request
\* is rejected as already checked in at every time of day.
C6_AlreadyCheckedInAnyTime ==
    (Asked(last, "check-in") /\ (\E r \in last.todays : r.action = "check-in")) =>
        last.resp = ErrorRedirect(MsgAlreadyIn)

\* C6 amended: with a check-in among today's records, a check-in request is
\* always rejected: as already checked in when its time of day is inside
\* the check-in window, and as outside the check-in window otherwise.
C6_AlreadyCheckedInInWindow ==
    (Asked(last, "check-in") /\ (\E r \in last.todays : r.action = "check-in")) =>
        LET t == TimeOf(last.now)
            in_window == \/ CHECKIN_MORNING_START <= t /\ t <= CHECKIN_MORNING_END
                         \/ t = CHECKIN_AFTERNOON_EXACT
        IN  /\ in_window => last.resp = ErrorRedirect(MsgAlreadyIn)
            /\ ~in_window => last.resp = ErrorRedirect(MsgCheckinWindow)

\* A second check-in of the day, inside the window, has been rejected as
\* already checked in.
C6_Witness ==
    /\ Asked(last, "check-in")
    /\ \E r \in last.todays : r.action = "check-in"
    /\ last.resp = ErrorRedirect(MsgAlreadyIn)

\* C7 as stated: a check-out at 19:00 by an employee with no check-in today
\* is rejected with the reason no_prior_checkin.
C7_NoCheckInAt1900 ==
    ( /\ Asked(last, "check-out")
      /\ TimeOf(last.now) = HMS(19, 0, 0)
      /\ ~(\E r \in last.todays : r.action = "check-in") ) =>
        last.resp = ErrorRedirect(MsgNoCheckin)

\* C7 amended: a check-out by an employee with no check-in today is rejected
\* as too early at 19:00 (and at any time before checkout_min_time), and
\* with the reason no_prior_checkin from checkout_min_time on.
C7_NoCheckInByTime ==
    ( /\ Asked(last, "check-out")
      /\ ~(\E r \in last.todays : r.action = "check-in") ) =>
        LET t == TimeOf(last.now)
        IN  /\ t = HMS(19, 0, 0) => last.resp = ErrorRedirect(MsgTooEarly)
            /\ t < CHECKOUT_MIN_TIME => last.resp = ErrorRedirect(MsgTooEarly)
            /\ t >= CHECKOUT_MIN_TIME => last.resp = ErrorRedirect(MsgNoCheckin)

\* A check-out at 19:00 without a check-in today has been answered.
C7_Witness ==
    /\ Asked(last, "check-out")
    /\ TimeOf(last.now) = HMS(19, 0, 0)
    /\ ~(\E r \in last.todays : r.action = "check-in")
    /\ last.resp.status = "error"

\* C9: a check-out of an employee who has a check-in and no check-out today
\* is accepted exactly when its time of day is >= checkout_min_time; at
\* 19:15:00 it is accepted, at 19:14:59 it is rejected as too early.
C9_CheckOutMinTime ==
    ( /\ Asked(last, "check-out")
      /\ \E r \in last.todays : r.action = "check-in"
      /\ ~(\E r \in last.todays : r.action = "check-out") ) =>
        LET t == TimeOf(last.now)
        IN  /\ Accepted(last) <=> t >= CHECKOUT_MIN_TIME
            /\ ~Accepted(last) => last.resp = ErrorRedirect(MsgTooEarly)
            /\ t = HMS(19, 15, 0) => Accepted(last)
            /\ t = HMS(19, 14, 59) => last.resp = ErrorRedirect(MsgTooEarly)

\* A check-out at 19:15:00 after the day's check-in has succeeded.
C9_Witness ==
    /\ Asked(last, "check-out")
    /\ \E r \in last.todays : r.action = "check-in"
    /\ TimeOf(last.now) = HMS(19, 15, 0)
    /\ last.resp.status = "success"

\* C10: a request that is rejected (geofence, outside the check-in window,
\* already checked in, too early, no prior check-in, already checked out)
\* leaves the attendance ledger and every total_working value unchanged.
C10_RejectionChangesNothing ==
    [][ Rejected(last') =>
            /\ attendance' = attendance
            /\ total_working' = total_working ]_vars

\* A request has been rejected as already checked out, on a ledger that
\* holds rows and with a total_working that has been set.
C10_Witness ==
    /\ Rejected(last)
    /\ last.resp.msg = MsgAlreadyOut
    /\ Len(attendance) >= 2
    /\ total_working[last.user] > 0

(***************************************************************************)
(* Order of the rules.                                                     *)
(***************************************************************************)
\* C8: the rules are tried in a fixed order and the first that matches
\* gives the reason: for a check-in, outside the window, then already
\* checked in; for a check-out, too early, then no prior check-in, then
\* already checked out.  A check-out before checkout_min_time is rejected
\* as too early whatever the records of the day are.
C8_FirstMatchingRule ==
    last.op = "evaluated" =>
        LET t == TimeOf(last.now)
            has_in == \E r \in last.todays : r.action = "check-in"
            has_out == \E r \in last.todays : r.action = "check-out"
            in_window == \/ CHECKIN_MORNING_START <= t /\ t <= CHECKIN_MORNING_END
                         \/ t = CHECKIN_AFTERNOON_EXACT
        IN  /\ last.action = "check-in" =>
                  last.resp.msg = IF ~in_window THEN MsgCheckinWindow
                                  ELSE IF has_in THEN MsgAlreadyIn
                                  ELSE NoError
            /\ last.action = "check-out" =>
                  last.resp.msg = IF t < CHECKOUT_MIN_TIME THEN MsgTooEarly
                                  ELSE IF ~has_in THEN MsgNoCheckin
                                  ELSE IF has_out THEN MsgAlreadyOut
                                  ELSE NoError

\* A check-out after checkout_min_time, on records that hold a check-out
\* and no check-in, has been rejected for the missing check-in.
C8_Witness ==
    /\ last.op = "evaluated"
    /\ last.action = "check-out"
    /\ TimeOf(last.now) >= CHECKOUT_MIN_TIME
    /\ \E r \in last.todays : r.action = "check-out"
    /\ ~(\E r \in last.todays : r.action = "check-in")
    /\ last.resp = ErrorRedirect(MsgNoCheckin)

(***************************************************************************)
(* Requests served side by side.                                           *)
(***************************************************************************)
\* C3: two check-ins of one employee on one day can both be accepted when
\* each runs its SELECT before the other has inserted, and only then: of
\* two check-in rows of an employee-day, the later was inserted by a
\* request that read the table before the earlier row was in it.
C3_DuplicateOnlyByRace ==
    \A i \in DOMAIN attendance, j \in DOMAIN attendance :
        ( /\ i < j
          /\ attendance[i].action = "check-in"
          /\ attendance[j].action = "check-in"
          /\ attendance[i].user_email = attendance[j].user_email
          /\ DateOf(attendance[i].event_time) = DateOf(attendance[j].event_time) )
        => read_len[j] < i

\* Both processes have answered a check-in of the same employee with
\* success, and the ledger holds two check-in rows of that employee-day.
C3_Witness ==
    /\ \A r \in Requests :
          /\ reqs[r].pc = "done"
          /\ reqs[r].action = "check-in"
          /\ reqs[r].resp.status = "success"
    /\ \E e \in Employees, day \in LedgerDays :
          Cardinality(RowsOf(e, day, "check-in")) = 2

(***************************************************************************)
(* The geofence.                                                           *)
(***************************************************************************)
\* The distance of a point from the office, in centimetres.
OfficeDistance(lat, lon) == haversine(lat, lon, OFFICE_LAT, OFFICE_LON)

\* C11: the geofence precedes the eligibility rules and gates the ledger:
\* a request of an employee from a point farther from the office than the
\* radius is rejected with the location error before today's records are
\* read, whatever the time of day and the ledger are, and every row of the
\* ledger carries coordinates within the radius.
C11_GeofenceFirst ==
    /\ ( /\ last.op = "attendance"
          /\ last.user \in Employees
          /\ OfficeDistance(last.lat, last.lon) > OFFICE_RADIUS_METERS * 100 ) =>
            /\ last.resp = ErrorRedirect(MsgOutsideOffice)
            /\ last.todays = {}
    /\ \A i \in DOMAIN attendance :
          OfficeDistance(attendance[i].latitude, attendance[i].longitude)
              <= OFFICE_RADIUS_METERS * 100

\* A first check-in of the day at 09:30:00, which the rules would accept,
\* has been rejected for its location, on a ledger that holds rows.
C11_Witness ==
    /\ last.op = "attendance"
    /\ last.user \in Employees
    /\ last.action = "check-in"
    /\ TimeOf(last.now) = HMS(9, 30, 0)
    /\ RowsOf(last.user, DateOf(last.now), "check-in") = {}
    /\ OfficeDistance(last.lat, last.lon) > OFFICE_RADIUS_METERS * 100
    /\ last.resp = ErrorRedirect(MsgOutsideOffice)
    /\ Len(attendance) >= 1

\* A latitude of -90..90 degrees, a longitude of -180..180 degrees.
InRange(latitude, longitude) ==
    /\ latitude.kind = "finite" /\ latitude.turns = 0
    /\ Abs(latitude.v) <= 900000000
    /\ longitude.kind = "finite" /\ longitude.turns = 0
    /\ Abs(longitude.v) <= 1800000000

\* C12 as stated: a request whose coordinates are non-finite or out of
\* range is rejected as invalid location; such coordinates are never
\* judged to be within the office.
C12_InvalidLocationRejected ==
    (last.op = "located" /\ ~InRange(last.lat, last.lon)) =>
        last.resp = ErrorRedirect(MsgInvalidLocation)

\* C20: for a latitude and longitude in range, the location check passes
\* exactly when the distance from the office is <= the radius: a point
\* at the radius passes, the office point itself passes with distance 0,
\* and a point a centimetre beyond the radius is rejected as outside.
C20_InclusiveRadius ==
    (last.op = "located" /\ InRange(last.lat, last.lon)) =>
        LET d == OfficeDistance(last.lat.v, last.lon.v)
        IN  /\ d <= OFFICE_RADIUS_METERS * 100 => last.resp = Proceed
            /\ d > OFFICE_RADIUS_METERS * 100 =>
                  last.resp = ErrorRedirect(MsgOutsideOffice)
            /\ (last.lat.v = OFFICE_LAT /\ last.lon.v = OFFICE_LON) =>
                  d = 0 /\ last.resp = Proceed

\* A point whose distance is the radius has passed the location check.
C20_Witness ==
    /\ last.op = "located"
    /\ InRange(last.lat, last.lon)
    /\ OfficeDistance(last.lat.v, last.lon.v) = OFFICE_RADIUS_METERS * 100
    /\ last.resp = Proceed

(***************************************************************************)
(* The report.                                                             *)
(***************************************************************************)
\* The rows of the table that lie in the window of the report that has
\* been built: those of its employee with now - 30 days <= event_time <= now.
InWindow(r) ==
    /\ r.user_email = last.user
    /\ last.now - REPORT_DAYS * SecondsPerDay <= r.event_time
    /\ r.event_time <= last.now

\* The event times in the window on a day with an action.
WindowTimes(day, a) ==
    { attendance[i].event_time :
        i \in { j \in DOMAIN attendance :
                  /\ InWindow(attendance[j])
                  /\ DateOf(attendance[j].event_time) = day
                  /\ attendance[j].action = a } }

\* The dates that have an event in the window.
WindowDays ==
    { DateOf(attendance[i].event_time) :
        i \in { j \in DOMAIN attendance : InWindow(attendance[j]) } }

Earliest(T) == CHOOSE t \in T : \A u \in T : t <= u
Latest(T) == CHOOSE t \in T : \A u \in T : t >= u

\* worked_seconds of a day.
Worked(day) ==
    IF WindowTimes(day, "check-in") # {} /\ WindowTimes(day, "check-out") # {}
    THEN Latest(WindowTimes(day, "check-out")) - Earliest(WindowTimes(day, "check-in"))
    ELSE 0

\* C13: each emitted day shows as check-in the earliest check-in of the day
\* and as check-out the latest check-out of the day, and its worked
\* seconds are check-out minus check-in when both exist and 0 when either
\* is absent; check-in 09:30 and check-out 19:15 give 35100.
C13_DayMinMax ==
    last.op = "built" =>
        /\ \A k \in DOMAIN last.resp.report :
              LET row == last.resp.report[k]
                  ins == WindowTimes(row.day, "check-in")
                  outs == WindowTimes(row.day, "check-out")
                  w == Worked(row.day)
              IN  /\ row.check_in = IF ins = {} THEN "-"
                                    ELSE StrfTime12(Earliest(ins), " ")
                  /\ row.check_out = IF outs = {} THEN "-"
                                     ELSE StrfTime12(Latest(outs), " ")
                  /\ row.total_hours =
                        IF w = 0 THEN "-"
                        ELSE ToString(w \div 3600) \o "h " \o
                             ToString((w % 3600) \div 60) \o "m"
                  /\ (ins = {} \/ outs = {}) => row.total_hours = "-"
        /\ Len(last.resp.report) = 1 =>
              /\ last.resp.total_working_seconds = Worked(last.resp.report[1].day)
              /\ ( /\ WindowTimes(last.resp.report[1].day, "check-in") = {HMS(9, 30, 0)}
                    /\ WindowTimes(last.resp.report[1].day, "check-out") = {HMS(19, 15, 0)} )
                  => last.resp.total_working_seconds = 35100

\* A report of one day that holds two check-ins and two check-outs.
C13_Witness ==
    /\ last.op = "built"
    /\ Len(last.resp.report) = 1
    /\ Cardinality(WindowTimes(last.resp.report[1].day, "check-in")) = 2
    /\ Cardinality(WindowTimes(last.resp.report[1].day, "check-out")) = 2
    /\ last.resp.total_working_seconds > 0

\* The sum of the worked seconds of the first k rows of the report.
RECURSIVE SumWorked(_)
SumWorked(k) ==
    IF k = 0 THEN 0 ELSE Worked(last.resp.report[k].day) + SumWorked(k - 1)

\* C14: the total the report builder returns is the sum of the worked
\* seconds of the emitted days.
C14_TotalIsSum ==
    last.op = "built" =>
        last.resp.total_working_seconds = SumWorked(Len(last.resp.report))

\* A report of two days, each with a check-in and a check-out.
C14_Witness ==
    /\ last.op = "built"
    /\ Len(last.resp.report) = 2
    /\ Worked(last.resp.report[1].day) > 0
    /\ Worked(last.resp.report[2].day) > 0
    /\ last.resp.total_working_seconds
          = Worked(last.resp.report[1].day) + Worked(last.resp.report[2].day)

\* C15: the rows are in strictly ascending order of their dates, with one
\* row for each date that has an event in the window and none for any
\* other date.
C15_AscendingSparse ==
    last.op = "built" =>
        /\ \A k \in 1..(Len(last.resp.report) - 1) :
              last.resp.report[k].day < last.resp.report[k + 1].day
        /\ { last.resp.report[k].day : k \in DOMAIN last.resp.report } = WindowDays

\* A report of two dates REPORT_DAYS days apart, and nothing between them.
C15_Witness ==
    /\ last.op = "built"
    /\ Len(last.resp.report) = 2
    /\ last.resp.report[1].day = 0
    /\ last.resp.report[2].day = REPORT_DAYS
    /\ Len(attendance) = MaxEvents

\* C16: the report covers exactly the events of the employee with
\* now - 30 days <= event_time <= now: every row is of a date with such an
\* event, an event at either end of the window has its row, and the rows
\* and the total are those of the table without every other row.
C16_WindowOnly ==
    last.op = "built" =>
        /\ \A k \in DOMAIN last.resp.report : last.resp.report[k].day \in WindowDays
        /\ \A i \in DOMAIN attendance :
              ( /\ attendance[i].user_email = last.user
                /\ attendance[i].event_time
                      \in {last.now - REPORT_DAYS * SecondsPerDay, last.now} )
              => \E k \in DOMAIN last.resp.report :
                    last.resp.report[k].day = DateOf(attendance[i].event_time)
        /\ last.resp = [status |-> "page", msg |-> ""]
                       @@ BuildReportForUser(SelectSeq(attendance, InWindow),
                                             last.user, last.now)

\* The table holds an event of the employee before the window, one at the
\* first second of the window and one of another employee; the report has
\* the row of the second alone.
C16_Witness ==
    /\ last.op = "built"
    /\ \E i \in DOMAIN attendance :
          /\ attendance[i].user_email = last.user
          /\ attendance[i].event_time < last.now - REPORT_DAYS * SecondsPerDay
    /\ \E i \in DOMAIN attendance :
          /\ attendance[i].user_email = last.user
          /\ attendance[i].event_time = last.now - REPORT_DAYS * SecondsPerDay
    /\ \E i \in DOMAIN attendance : attendance[i].user_email # last.user
    /\ Len(last.resp.report) = 1
    /\ last.resp.report[1].check_in = "07:15 PM"

(***************************************************************************)
(* The trigger of the working-days recomputation.                          *)
(***************************************************************************)
\* The request of process r inserts its row in this step.
Inserts(r) ==
    /\ reqs[r].pc = "selected"
    /\ reqs'[r].pc # "selected"
    /\ attendance' # attendance

\* The request of process r runs the recomputation in this step.
Recomputes(r) ==
    /\ reqs[r].pc = "inserted"
    /\ reqs'[r].pc = "done"

\* C17: the working-days recomputation is triggered exactly by an accepted
\* check-in whose row has been inserted and committed.  A request stands
\* before the recomputation only by having just inserted the row of a
\* check-in the rules accepted; an inserting request goes on to the
\* recomputation if and only if its action is check-in (an accepted
\* check-out returns its success right after the INSERT); a request that is
\* rejected, by the geofence, by a rule or by a failing INSERT, returns
\* without it; and total_working changes only in the recomputation of such a
\* request, for its own employee, with the inserted row in the table.
C17_RecomputeOnCheckInOnly ==
    [][ /\ \A r \in Requests :
             LET q == reqs[r]
             IN  /\ (reqs'[r].pc = "inserted" /\ q.pc # "inserted") =>
                        /\ Inserts(r)
                        /\ q.action = "check-in"
                        /\ Evaluate(q.action, TimeOf(q.now), q.todays) = NoError
                        /\ attendance' =
                               Append(attendance,
                                      AttendanceRow(q.user, "check-in", q.now,
                                                    q.lat, q.lon))
                 /\ Inserts(r) =>
                        (reqs'[r].pc = "inserted" <=> q.action = "check-in")
                 /\ (q.pc \in {"idle", "selected"} /\ reqs'[r].pc = "done") =>
                        /\ total_working' = total_working
                        /\ \/ reqs'[r].resp.status # "success"
                           \/ q.action # "check-in"
                 /\ Recomputes(r) =>
                        /\ q.action = "check-in"
                        /\ \E i \in DOMAIN attendance :
                              attendance[i] =
                                 AttendanceRow(q.user, "check-in", q.now,
                                               q.lat, q.lon)
                        /\ attendance' = attendance
        /\ total_working' # total_working =>
             \E r \in Requests :
                /\ Recomputes(r)
                /\ reqs'[r].resp.status = "success"
                /\ \A e \in Employees \ {reqs[r].user} :
                      total_working'[e] = total_working[e] ]_vars

\* A check-in and a check-out of one employee have both been accepted and
\* inserted: the check-in was followed by the recomputation, which counted
\* its day, and the check-out has just returned its success.
C17_Witness ==
    \E e \in Employees, r \in Requests :
       /\ reqs[r].pc = "done"
       /\ reqs[r].user = e
       /\ reqs[r].action = "check-out"
       /\ reqs[r].resp.status = "success"
       /\ total_working[e] = 1
       /\ \E i, j \in DOMAIN attendance :
             /\ attendance[i].user_email = e
             /\ attendance[i].action = "check-in"
             /\ attendance[j].user_email = e
             /\ attendance[j].action = "check-out"

(***************************************************************************)
(* A failing INSERT.                                                       *)
(***************************************************************************)
\* C18: when the INSERT of an accepted request raises, the request ends
\* there: the attendance table is the one before the request (no second
\* attempt puts the row in), total_working is not updated, and the response
\* is the database error, not a success.
C18_InsertFailureIsFinal ==
    [][ (last = NoRequest /\ last'.op = "attendance" /\ last'.db = "insert fails") =>
            /\ Evaluate(last'.action, TimeOf(last'.now), last'.todays) = NoError
            /\ attendance' = attendance
            /\ read_len' = read_len
            /\ total_working' = total_working
            /\ last'.resp = ErrorRedirect(MsgDatabase)
            /\ last'.resp.status # "success" ]_vars

\* The INSERT of an accepted check-in has raised: the employee has no row
\* for the day and no working day, while the table holds a row of a
\* colleague.
C18_Witness ==
    /\ last.op = "attendance"
    /\ last.db = "insert fails"
    /\ last.action = "check-in"
    /\ last.resp.status = "error"
    /\ RowsOf(last.user, DateOf(last.now), "check-in") = {}
    /\ total_working[last.user] = 0
    /\ Len(attendance) > 0

(***************************************************************************)
(* The outcomes of a request, told apart.                                  *)
(***************************************************************************)
\* The messages of the rejections: the geofence and the five rules.
RejectionMessages ==
    { MsgOutsideOffice, MsgCheckinWindow, MsgAlreadyIn, MsgTooEarly,
      MsgNoCheckin, MsgAlreadyOut }

\* C19: the outcome of a request tells which rule rejected it.  The
\* messages of the geofence rejection and of the five rule rejections are
\* six different texts, none of them carried by a success, and the response
\* of a request carries the message of a rule exactly when that rule is the
\* one that rejected it: the check-in window, a check-in already recorded,
\* a check-out before the minimum time, a check-out without a check-in, a
\* check-out already recorded; it carries the geofence message exactly when
\* the location is outside the office, and it is a success only when the
\* request was within the office and no rule rejected it.
C19_OutcomeTellsRule ==
    /\ Cardinality(RejectionMessages) = 6
    /\ (last.op = "attendance" /\ last.user # NoUser) =>
          LET t == TimeOf(last.now)
              inside == is_at_office(last.lat, last.lon)
              checkin == inside /\ last.action = "check-in"
              checkout == inside /\ last.action = "check-out"
              window == is_morning(t) \/ is_afternoon(t)
              late == t >= CHECKOUT_MIN_TIME
              hasin == HasAction(last.todays, "check-in")
              hasout == HasAction(last.todays, "check-out")
          IN  /\ last.resp.status \in {"error", "success"}
              /\ last.resp.status = "error" =>
                     last.resp.msg \in RejectionMessages \cup {MsgDatabase}
              /\ last.resp.status = "success" =>
                     /\ last.resp.msg \notin RejectionMessages \cup {MsgDatabase}
                     /\ inside
                     /\ Evaluate(last.action, t, last.todays) = NoError
              /\ last.resp = ErrorRedirect(MsgOutsideOffice) <=> ~inside
              /\ last.resp = ErrorRedirect(MsgCheckinWindow) <=>
                     (checkin /\ ~window)
              /\ last.resp = ErrorRedirect(MsgAlreadyIn) <=>
                     (checkin /\ window /\ hasin)
              /\ last.resp = ErrorRedirect(MsgTooEarly) <=>
                     (checkout /\ ~late)
              /\ last.resp = ErrorRedirect(MsgNoCheckin) <=>
                     (checkout /\ late /\ ~hasin)
              /\ last.resp = ErrorRedirect(MsgAlreadyOut) <=>
                     (checkout /\ late /\ hasin /\ hasout)

\* A check-out at a permitted time, after a check-in and a check-out of the
\* day, is answered with the message of the last check-out rule.
C19_Witness ==
    /\ last.op = "attendance"
    /\ last.action = "check-out"
    /\ TimeOf(last.now) >= CHECKOUT_MIN_TIME
    /\ HasAction(last.todays, "check-in")
    /\ HasAction(last.todays, "check-out")
    /\ last.resp = ErrorRedirect(MsgAlreadyOut)

(***************************************************************************)
(* The end of the morning window.                                          *)
(***************************************************************************)
\* C21: the morning check-in window ends at 09:45: a check-in request from
\* inside the geofence at a time of day later than 09:45:00 and different
\* from 13:30:00 is rejected as outside the check-in window.
C21_MorningEndsAt0945 ==
    (/\ Asked(last, "check-in")
     /\ TimeOf(last.now) > HMS(9, 45, 0)
     /\ TimeOf(last.now) # CHECKIN_AFTERNOON_EXACT) =>
        last.resp = ErrorRedirect(MsgCheckinWindow)

(***************************************************************************)
(* The events a decision depends on.                                       *)
(***************************************************************************)
\* C22: the decision on a request depends only on the events of the employee
\* dated the calendar day of the request.  A check-in from inside the
\* geofence passes the rules exactly when its time is in the window and the
\* ledger holds no check-in of the employee dated today; a check-out passes
\* exactly when its time is not before the minimum and the ledger holds a
\* check-in and no check-out of the employee dated today.  Events of other
\* days, an unclosed check-in of an earlier day included, do not enter.
C22_OnlyTodaysEvents ==
    [][ (last = NoRequest /\ last'.op = "attendance" /\ last'.user \in Employees
         /\ is_at_office(last'.lat, last'.lon)) =>
          LET t == TimeOf(last'.now)
              ins == RowsOf(last'.user, DateOf(last'.now), "check-in")
              outs == RowsOf(last'.user, DateOf(last'.now), "check-out")
          IN  /\ \A r \in last'.todays :
                    /\ r.user_email = last'.user
                    /\ DateOf(r.event_time) = DateOf(last'.now)
              /\ last'.action = "check-in" =>
                    (Accepted(last') <=>
                        /\ is_morning(t) \/ is_afternoon(t)
                        /\ ins = {})
              /\ last'.action = "check-out" =>
                    (Accepted(last') <=>
                        /\ t >= CHECKOUT_MIN_TIME
                        /\ ins # {}
                        /\ outs = {}) ]_vars

\* An employee whose check-in of an earlier day was never followed by a
\* check-out has checked in again on a later day.
C22_Witness ==
    /\ Asked(last, "check-in")
    /\ last.resp.status = "success"
    /\ \E d \in LedgerDays :
          /\ d < DateOf(last.now)
          /\ RowsOf(last.user, d, "check-in") # {}
          /\ RowsOf(last.user, d, "check-out") = {}

(***************************************************************************)
(* Error responses and the ledger.                                         *)
(***************************************************************************)
\* C23: whenever a request is answered with an error, a rejection or the
\* database error, the attendance table is the one before the request.
C23_ErrorLeavesLedger ==
    [][ (last = NoRequest /\ last'.op = "attendance"
         /\ last'.resp.status = "error") =>
            attendance' = attendance ]_vars

(***************************************************************************)
(* Actions that have no rules.                                             *)
(***************************************************************************)
\* C24: only requests whose action is check-in or check-out are persisted:
\* every row of the attendance table carries one of the two actions, and a
\* request with any other action is never answered with a success.
C24_OnlyRuledActionsPersist ==
    /\ \A i \in DOMAIN attendance :
          attendance[i].action \in {"check-in", "check-out"}
    /\ (last.op = "attendance" /\ last.action \notin {"check-in", "check-out"}) =>
          last.resp.status # "success"

OwnEvents == { attendance[i] : i \in { j \in DOMAIN attendance :
                                         attendance[j].user_email = last.user } }

\* C28: every day emitted in a report shows the check-in time, the check-out
\* time and the worked seconds computed from all the events of the employee
\* on that calendar day; a day with a check-in and a check-out in the ledger
\* is not shown with a missing check-in and no worked seconds.
C28_WholeDayInReport ==
    last.op = "built" =>
       \A k \in DOMAIN last.resp.report :
          LET day == last.resp.report[k].day
          IN  /\ last.resp.report[k] = ReportRow(OwnEvents, day)
              /\ Worked(day) = DaySeconds(OwnEvents, day)

(***************************************************************************)
(* Employees do not affect one another.                                    *)
(***************************************************************************)
\* The table without the rows of the other employees.
OwnLedger(e) == SelectSeq(attendance, LAMBDA r : r.user_email = e)

\* C29: the attendance of an employee does not depend on the other
\* employees.  The response to a request of an employee is the response the
\* same request gets on the ledger reduced to the rows of that employee, so
\* it is the same on any two ledgers that agree on these rows; the same
\* holds for the report and the CSV.  A request of an employee appends at
\* most one row, owned by that employee, and changes the total_working of
\* no other employee.
C29_EmployeesIndependent ==
    [][ (last = NoRequest /\ last'.user \in Employees) =>
          LET e == last'.user
          IN  /\ last'.op = "attendance" =>
                    /\ last'.resp =
                          AttendanceOutcome(OwnLedger(e), total_working, e,
                                            last'.action, last'.lat, last'.lon,
                                            last'.now, last'.db).resp
                    /\ \/ attendance' = attendance
                       \/ /\ Len(attendance') = Len(attendance) + 1
                          /\ SubSeq(attendance', 1, Len(attendance)) = attendance
                          /\ attendance'[Len(attendance')].user_email = e
                    /\ \A o \in Employees \ {e} :
                          total_working'[o] = total_working[o]
              /\ last'.op = "report" =>
                    /\ last'.resp.report =
                          BuildReportForUser(OwnLedger(e), e, last'.now).report
                    /\ last'.resp.total_working_seconds =
                          BuildReportForUser(OwnLedger(e), e, last'.now).total_working_seconds
                    /\ last'.todays = TodaysRecords(OwnLedger(e), e, DateOf(last'.now))
              /\ last'.op = "download" =>
                    last'.resp.report =
                       BuildReportForUser(OwnLedger(e), e, last'.now).report ]_vars

\* An employee has checked in on a day on which the ledger already holds the
\* check-in of a colleague, whose total_working is the one it was.
C29_Witness ==
    /\ Asked(last, "check-in")
    /\ last.resp.status = "success"
    /\ total_working[last.user] = 1
    /\ \E o \in Employees \ {last.user} :
          /\ RowsOf(o, DateOf(last.now), "check-in") # {}
          /\ total_working[o] = 1

(***************************************************************************)
(* The row behind a success.                                               *)
(***************************************************************************)
\* C30: whenever a request is answered with a success, that request has
\* appended exactly one row to the attendance table: the row is owned by the
\* employee of the session, carries the requested action and the submitted
\* coordinates, and its event_time is the `now` of the request, whose date
\* selected the records of the day and whose time of day the rules judged.
C30_SuccessMeansOneRow ==
    [][ (last = NoRequest /\ last'.op = "attendance"
         /\ last'.resp.status = "success") =>
          /\ Len(attendance') = Len(attendance) + 1
          /\ SubSeq(attendance', 1, Len(attendance)) = attendance
          /\ LET row == attendance'[Len(attendance')]
             IN  /\ row.user_email = last'.user
                 /\ row.action = last'.action
                 /\ row.latitude = last'.lat
                 /\ row.longitude = last'.lon
                 /\ row.event_time = last'.now
          /\ last'.now = clock
          /\ last'.todays = TodaysRecords(attendance, last'.user, DateOf(last'.now))
          /\ Evaluate(last'.action, TimeOf(last'.now), last'.todays) = NoError ]_vars

====
